---- MODULE Spec2Model ----
(***************************************************************************)
(* A model of src/main.py, the Streamlit chat front-end.                   *)
(*                                                                         *)
(* The script is re-executed from its first line on every user interaction *)
(* and on every st.rerun().  st.session_state survives between runs; the   *)
(* module-level names (client, prompt, full_response, ...) do not.  An     *)
(* uncaught exception ends the run at the line that raised it and keeps    *)
(* the session-state writes made so far.                                   *)
(*                                                                         *)
(* Text is a sequence of characters, each character a one-element name:    *)
(* "a" plain ASCII, "\"" the double quote, "\\" the backslash, "e_acute"   *)
(* a non-ASCII character (U+00E9) and "cursor" the block U+258C.           *)
(***************************************************************************)
EXTENDS Integers, Sequences, FiniteSets, TLC

VARIABLES
    messages,        \* st.session_state.messages
    token_count,     \* st.session_state.token_count
    api_key,         \* st.session_state.api_key
    model,           \* st.session_state.model
    temperature,     \* st.session_state.temperature, in tenths
    max_tokens,      \* st.session_state.max_tokens
    history_window,  \* st.session_state.history_window
    uploaded_file,   \* what the file_uploader widget holds (line 190)
    disk,            \* the files written by save_chat_history
    pc,              \* the position of the script run
    trigger,         \* the one-shot widget (chat input, button) true in this run
    prompt,          \* the value of st.chat_input in this run
    request,         \* the completion_params handed to create() in this run
    full_response,   \* the local full_response
    received,        \* the stream fragments pulled so far, as received
    rendered,        \* what message_placeholder shows
    error,           \* the uncaught exception that ended the last run
    warning,         \* the sidebar warning of line 120 is shown
    turn_base,       \* messages as they were when the prompt was submitted
    interactions     \* the number of user interactions so far

vars == <<messages, token_count, api_key, model, temperature, max_tokens,
          history_window, uploaded_file, disk, pc, trigger, prompt, request,
          full_response, received, rendered, error, warning, turn_base,
          interactions>>

\* ------------------------------------------------------------------ bounds
MaxInteractions == 3
MaxHistory == 4
MaxFragments == 2

\* ------------------------------------------------------------ text helpers
RECURSIVE Flatten(_)
Flatten(ss) == IF ss = <<>> THEN <<>> ELSE Head(ss) \o Flatten(Tail(ss))

Min(a, b) == IF a < b THEN a ELSE b
Max(a, b) == IF a > b THEN a ELSE b

StartsWithExactly(s, p) == s = p

StartsWith(s, p) == Len(s) >= Len(p) /\ SubSeq(s, 1, Len(p)) = p

\* A key that a dict does not have / a value that is None.
Absent == <<"<absent>">>
None == <<"<None>">>
AbsentRole == "<absent>"

UserMessage(p) == [role |-> "user", content |-> p]
AssistantMessage(c) == [role |-> "assistant", content |-> c]

\* ------------------------------------------------------- count_tokens
\* tiktoken is an external pure function text -> count; here one token per
\* character.  The model argument is always its default.
count_tokens(text) == Len(text)

RECURSIVE TokenSum(_)
TokenSum(msgs) ==
    IF msgs = <<>> THEN 0
    ELSE count_tokens(Head(msgs).content) + TokenSum(Tail(msgs))

\* ------------------------------------------------------- json.dump / load
\* json.dump with the default ensure_ascii=True: the quote and the backslash
\* get a backslash, a non-ASCII character becomes \uXXXX.
JsonEscapeCharKeepsBackslash(c) ==
    CASE c = "\"" -> <<"\\", "\"">>
      [] c = "e_acute" -> <<"\\", "u", "0", "0", "e", "9">>
      [] OTHER -> <<c>>

JsonEscapeChar(c) ==
    CASE c = "\"" -> <<"\\", "\"">>
      [] c = "\\" -> <<"\\", "\\">>
      [] c = "e_acute" -> <<"\\", "u", "0", "0", "e", "9">>
      [] OTHER -> <<c>>

JsonEncodeString(s) == Flatten([i \in 1..Len(s) |-> JsonEscapeChar(s[i])])

RECURSIVE JsonDecodeString(_)
JsonDecodeString(e) ==
    IF e = <<>> THEN <<>>
    ELSE IF Head(e) # "\\" THEN <<Head(e)>> \o JsonDecodeString(Tail(e))
    ELSE IF Len(e) < 2 THEN <<"<invalid escape>">>
    ELSE IF e[2] = "u" /\ SubSeq(e, 3, 6) = <<"0", "0", "e", "9">>
         THEN <<"e_acute">> \o JsonDecodeString(SubSeq(e, 7, Len(e)))
    ELSE <<e[2]>> \o JsonDecodeString(SubSeq(e, 3, Len(e)))

\* The text of a JSON file: whether it parses at all, and the objects of its
\* top-level list, each with its role and its content as written (escaped).
\* A key the object lacks is AbsentRole / Absent.
json_dump(msgs) ==
    [valid |-> TRUE,
     objs |-> [i \in 1..Len(msgs) |->
                 [role |-> msgs[i].role,
                  content |-> JsonEncodeString(msgs[i].content)]]]

json_load(text) ==
    [i \in 1..Len(text.objs) |->
        [role |-> text.objs[i].role,
         content |-> IF text.objs[i].content = Absent THEN Absent
                     ELSE JsonDecodeString(text.objs[i].content)]]

\* ------------------------------------------------------- Markdown export
Capitalize(role) == IF role = "user" THEN "User" ELSE "Assistant"

\* repr(content.encode()): the UTF-8 bytes between b' and '.
BytesReprChar(c) ==
    CASE c = "\\" -> <<"\\", "\\">>
      [] c = "e_acute" -> <<"\\", "x", "c", "3", "\\", "x", "a", "9">>
      [] OTHER -> <<c>>

BytesRepr(s) ==
    <<"b", "'">> \o Flatten([i \in 1..Len(s) |-> BytesReprChar(s[i])]) \o <<"'">>

markdown_dump(msgs) ==
    [i \in 1..Len(msgs) |->
        [label |-> Capitalize(msgs[i].role), body |-> BytesRepr(msgs[i].content)]]

save_chat_history(msgs) ==
    [exists |-> TRUE, json |-> json_dump(msgs), md |-> markdown_dump(msgs),
     origin |-> msgs]

NoDisk == [exists |-> FALSE, json |-> [valid |-> FALSE, objs |-> <<>>],
           md |-> <<>>, origin |-> <<>>]

\* ------------------------------------------------------- configuration
gpt_4o_mini == <<"g", "p", "t", "-", "4", "o", "-", "m", "i", "n", "i">>
gpt_4o == <<"g", "p", "t", "-", "4", "o">>
o1_mini == <<"o", "1", "-", "m", "i", "n", "i">>
o1_preview == <<"o", "1", "-", "p", "r", "e", "v", "i", "e", "w">>
available_models == {gpt_4o_mini, gpt_4o, o1_mini, o1_preview}

NoKey == <<>>
Keys == {NoKey, <<"s", "k">>}

\* The values the sliders and the number input are moved to.
Temperatures == {1, 7}
MaxTokenValues == {100, 4096}
HistoryWindows == {1, 2, 10}

\* ------------------------------------------------------- completion_params
PyFirstN(s, n) == SubSeq(s, 1, Min(n, Len(s)))

\* messages[-n:] for n >= 1
PyLastN(s, n) == SubSeq(s, Max(Len(s) - n, 0) + 1, Len(s))

IsO1(m) == StartsWith(m, <<"o", "1">>)

BaseParams(m, msgs, w) ==
    [model |-> m,
     messages |-> [i \in 1..Len(PyLastN(msgs, w)) |->
                     [role |-> PyLastN(msgs, w)[i].role,
                      content |-> PyLastN(msgs, w)[i].content]]]

StreamParams(base, t, n) ==
    [model |-> base.model, messages |-> base.messages,
     stream |-> TRUE, temperature |-> t, max_tokens |-> n]

completion_params(m, msgs, w, t, n) ==
    IF IsO1(m) THEN BaseParams(m, msgs, w)
    ELSE StreamParams(BaseParams(m, msgs, w), t, n)

NoRequest == [unsent |-> TRUE]

AccumulateInFront(full, fragment) ==
    (IF fragment = None THEN <<>> ELSE fragment) \o full

\* full_response += (delta.content or "")
Accumulate(full, fragment) ==
    full \o (IF fragment = None THEN <<>> ELSE fragment)

AfterAbortKeepsPartial(msgs, partial) == Append(msgs, AssistantMessage(partial))

\* An exception inside the with block of lines 141-171 leaves it before the
\* append of line 173: the history stays as the user message left it.
AfterAbort(msgs, partial) == msgs

\* the for loop of lines 128-130 reads message["role"] and message["content"]
Displayable(msgs) ==
    \A i \in 1..Len(msgs) : msgs[i].role # AbsentRole /\ msgs[i].content # Absent

Countable(msgs) == \A i \in 1..Len(msgs) : msgs[i].content # Absent

\* ------------------------------------------------------- inputs
Prompts == {<<"a">>, <<"\"", "a">>}
Replies == {<<"a">>, <<"\\", "e_acute">>}
Fragments == {None, <<"\\">>, <<"e_acute">>}

NoPrompt == <<>>

NoFile == [held |-> FALSE, text |-> [valid |-> FALSE, objs |-> <<>>],
           saved |-> FALSE, origin |-> <<>>]

External(text) == [held |-> TRUE, text |-> text, saved |-> FALSE, origin |-> <<>>]

\* Files that did not come from Save Chat History: one that is not JSON, one
\* whose object lacks "content", one whose object lacks "role", and a
\* well-formed transcript of one exchange.
ExternalFiles ==
    { External([valid |-> FALSE, objs |-> <<>>]),
      External([valid |-> TRUE,
                objs |-> <<[role |-> "user", content |-> Absent]>>]),
      External([valid |-> TRUE,
                objs |-> <<[role |-> AbsentRole, content |-> <<"a">>]>>]),
      External([valid |-> TRUE,
                objs |-> <<[role |-> "user", content |-> <<"a">>],
                           [role |-> "assistant", content |-> <<"\\", "\\">>]>>]) }

SavedFile == [held |-> TRUE, text |-> disk.json, saved |-> TRUE,
              origin |-> disk.origin]

\* ------------------------------------------------------- the script run
Init ==
    /\ messages = <<>>
    /\ token_count = 0
    /\ api_key \in Keys
    /\ model = gpt_4o_mini
    /\ temperature = 1
    /\ max_tokens = 4096
    /\ history_window = 10
    /\ uploaded_file = NoFile
    /\ disk = NoDisk
    /\ pc = "ready"
    /\ trigger = "none"
    /\ prompt = NoPrompt
    /\ request = NoRequest
    /\ full_response = <<>>
    /\ received = <<>>
    /\ rendered = <<>>
    /\ error = "none"
    /\ warning = (api_key = NoKey)
    /\ turn_base = <<>>
    /\ interactions = 0

\* A script run can start when no run is in progress: the last one has ended
\* ("ready") or has asked for a rerun ("rerun").
BetweenRuns == pc \in {"ready", "rerun"}

\* Lines 47-174 up to the call of create(): the widgets give the session its
\* configuration (k, m, t, n, w) and the uploader its file (up); trig is the
\* one-shot widget that fired ("submit" with prompt p, "save", "reset" or
\* "none").
Run(k, m, t, n, w, up, trig, p) ==
    /\ api_key' = k
    /\ model' = m
    /\ temperature' = t
    /\ max_tokens' = n
    /\ history_window' = w
    /\ uploaded_file' = up
    /\ warning' = (k = NoKey)
    /\ full_response' = <<>>
    /\ received' = <<>>
    /\ rendered' = <<>>
    /\ UNCHANGED <<token_count, disk>>
    /\ IF ~Displayable(messages)
       THEN \* KeyError in the loop of lines 128-130
            /\ error' = "display:KeyError"
            /\ pc' = "ready"
            /\ trigger' = "none"
            /\ prompt' = NoPrompt
            /\ request' = NoRequest
            /\ turn_base' = <<>>
            /\ UNCHANGED messages
       ELSE IF trig # "submit"
       THEN /\ error' = "none"
            /\ pc' = "save"
            /\ trigger' = trig
            /\ prompt' = NoPrompt
            /\ request' = NoRequest
            /\ turn_base' = <<>>
            /\ UNCHANGED messages
       ELSE /\ messages' = Append(messages, UserMessage(p))
            /\ turn_base' = messages
            /\ prompt' = p
            /\ IF k = NoKey
               THEN \* client was never bound: NameError at line 158 / 168
                    /\ error' = "turn:NameError"
                    /\ pc' = "ready"
                    /\ trigger' = "submit"
                    /\ request' = NoRequest
               ELSE /\ error' = "none"
                    /\ pc' = IF IsO1(m) THEN "request" ELSE "stream"
                    /\ trigger' = "submit"
                    /\ request' = completion_params(m, messages', w, t, n)

UserEvent ==
    /\ BetweenRuns
    /\ interactions < MaxInteractions
    /\ interactions' = interactions + 1

SetApiKey ==
    \E k \in Keys \ {api_key} :
        /\ UserEvent
        /\ Run(k, model, temperature, max_tokens, history_window,
               uploaded_file, "none", NoPrompt)

SelectModel ==
    \E m \in available_models \ {model} :
        /\ UserEvent
        /\ Run(api_key, m, temperature, max_tokens, history_window,
               uploaded_file, "none", NoPrompt)

SetTemperature ==
    \E t \in Temperatures \ {temperature} :
        /\ UserEvent
        /\ Run(api_key, model, t, max_tokens, history_window,
               uploaded_file, "none", NoPrompt)

SetMaxTokens ==
    \E n \in MaxTokenValues \ {max_tokens} :
        /\ UserEvent
        /\ Run(api_key, model, temperature, n, history_window,
               uploaded_file, "none", NoPrompt)

SetHistoryWindow ==
    \E w \in HistoryWindows \ {history_window} :
        /\ UserEvent
        /\ Run(api_key, model, temperature, max_tokens, w,
               uploaded_file, "none", NoPrompt)

Submit ==
    \E p \in Prompts :
        /\ Len(messages) + 2 <= MaxHistory
        /\ UserEvent
        /\ Run(api_key, model, temperature, max_tokens, history_window,
               uploaded_file, "submit", p)

ClickSave ==
    /\ UserEvent
    /\ Run(api_key, model, temperature, max_tokens, history_window,
           uploaded_file, "save", NoPrompt)

ClickReset ==
    /\ UserEvent
    /\ Run(api_key, model, temperature, max_tokens, history_window,
           uploaded_file, "reset", NoPrompt)

Upload ==
    \E f \in ExternalFiles \cup (IF disk.exists THEN {SavedFile} ELSE {}) :
        /\ f # uploaded_file
        /\ UserEvent
        /\ Run(api_key, model, temperature, max_tokens, history_window,
               f, "none", NoPrompt)

RemoveFile ==
    /\ uploaded_file.held
    /\ UserEvent
    /\ Run(api_key, model, temperature, max_tokens, history_window,
           NoFile, "none", NoPrompt)

\* st.rerun(): the script runs again with the widgets as they are
Rerun ==
    /\ pc = "rerun"
    /\ Run(api_key, model, temperature, max_tokens, history_window,
           uploaded_file, "none", NoPrompt)
    /\ UNCHANGED interactions

\* ------------------------------------------------------- the completion
Commit(text) ==
    /\ messages' = Append(messages, AssistantMessage(text))
    /\ token_count' = TokenSum(messages')
    /\ pc' = "save"

\* line 158-160: the blocking request returns
Respond ==
    \E c \in Replies :
        /\ pc = "request"
        /\ full_response' = c
        /\ rendered' = c
        /\ Commit(c)
        /\ UNCHANGED <<api_key, model, temperature, max_tokens, history_window,
                       uploaded_file, disk, trigger, prompt, request, received,
                       error, warning, turn_base, interactions>>

\* lines 168-170: one fragment of the stream
Fragment ==
    \E f \in Fragments :
        /\ pc = "stream"
        /\ Len(received) < MaxFragments
        /\ received' = Append(received, f)
        /\ full_response' = Accumulate(full_response, f)
        /\ rendered' = full_response' \o <<"cursor">>
        /\ UNCHANGED <<messages, token_count, api_key, model, temperature,
                       max_tokens, history_window, uploaded_file, disk, pc,
                       trigger, prompt, request, error, warning, turn_base, interactions>>

\* lines 171-174: the stream has ended
StreamEnd ==
    /\ pc = "stream"
    /\ rendered' = full_response
    /\ received' = <<>>
    /\ Commit(full_response)
    /\ UNCHANGED <<api_key, model, temperature, max_tokens, history_window,
                   uploaded_file, disk, trigger, prompt, request, full_response,
                   error, warning, turn_base, interactions>>

\* create() or the iteration over the stream raises: the run ends there, and
\* with it the stream and the local full_response; the placeholder keeps
\* what it showed
RequestFail ==
    /\ pc \in {"request", "stream"}
    /\ error' = "turn:RequestError"
    /\ pc' = "ready"
    /\ received' = <<>>
    /\ full_response' = <<>>
    /\ messages' = AfterAbort(messages, full_response)
    /\ UNCHANGED <<token_count, api_key, model, temperature,
                   max_tokens, history_window, uploaded_file, disk, trigger,
                   prompt, request, rendered, warning, turn_base, interactions>>

\* ------------------------------------------------------- the sidebar controls
\* lines 185-187
SaveControl ==
    /\ pc = "save"
    /\ disk' = IF trigger = "save" THEN save_chat_history(messages) ELSE disk
    /\ pc' = "load"
    /\ UNCHANGED <<messages, token_count, api_key, model, temperature,
                   max_tokens, history_window, uploaded_file, trigger, prompt,
                   request, full_response, received, rendered, error, warning, turn_base, interactions>>

\* lines 190-196
LoadControl ==
    /\ pc = "load"
    /\ IF ~uploaded_file.held
       THEN /\ pc' = "reset"
            /\ UNCHANGED <<messages, token_count, error>>
       ELSE IF ~uploaded_file.text.valid
       THEN \* json.load raises at line 192
            /\ error' = "load:JSONDecodeError"
            /\ pc' = "ready"
            /\ UNCHANGED <<messages, token_count>>
       ELSE /\ messages' = json_load(uploaded_file.text)
            /\ IF ~Countable(messages')
               THEN \* m["content"] raises at line 194
                    /\ error' = "load:KeyError"
                    /\ pc' = "ready"
                    /\ UNCHANGED token_count
               ELSE /\ token_count' = TokenSum(messages')
                    /\ pc' = "rerun"
                    /\ UNCHANGED error
    /\ UNCHANGED <<api_key, model, temperature, max_tokens, history_window,
                   uploaded_file, disk, trigger, prompt, request, full_response,
                   received, rendered, warning, turn_base, interactions>>

\* lines 199-202
ResetControl ==
    /\ pc = "reset"
    /\ IF trigger = "reset"
       THEN /\ messages' = <<>>
            /\ token_count' = 0
            /\ pc' = "rerun"
       ELSE /\ pc' = "ready"
            /\ UNCHANGED <<messages, token_count>>
    /\ UNCHANGED <<api_key, model, temperature, max_tokens, history_window,
                   uploaded_file, disk, trigger, prompt, request, full_response,
                   received, rendered, error, warning, turn_base, interactions>>

Next ==
    \/ SetApiKey
    \/ SelectModel
    \/ SetTemperature
    \/ SetMaxTokens
    \/ SetHistoryWindow
    \/ Submit
    \/ ClickSave
    \/ ClickReset
    \/ Upload
    \/ RemoveFile
    \/ Rerun
    \/ Respond
    \/ Fragment
    \/ StreamEnd
    \/ RequestFail
    \/ SaveControl
    \/ LoadControl
    \/ ResetControl

Spec == Init /\ [][Next]_vars

\* ------------------------------------------------------- properties
InFlight == pc \in {"request", "stream"}

Config == <<api_key, model, temperature, max_tokens, history_window>>

\* The text a sequence of stream fragments spells.
TextOf(frags) ==
    Flatten([i \in 1..Len(frags) |-> IF frags[i] = None THEN <<>> ELSE frags[i]])

\* C1: the messages of the request are the last min(history_window, L)
\* messages of the history, in history order, the last one being the user
\* message just appended.
C1_RequestWindow ==
    InFlight =>
        LET L == Len(messages)
            K == Min(history_window, L)
        IN /\ L >= 1
           /\ Len(request.messages) = K
           /\ \A i \in 1..K :
                 request.messages[i] =
                     [role |-> messages[L - K + i].role,
                      content |-> messages[L - K + i].content]
           /\ request.messages[K] = UserMessage(prompt)

\* a request built from a history longer than a window of at least two
C1_Witness ==
    /\ InFlight
    /\ history_window >= 2
    /\ Len(messages) > history_window
    /\ Len(request.messages) = history_window

\* C2: a request for an o1 model holds model and messages and nothing else,
\* whatever temperature and max_tokens are set; a request for any other
\* model holds model, messages, temperature, max_tokens and stream = TRUE.
C2_RequestParameters ==
    InFlight =>
        /\ request.model = model
        /\ IF model \in {o1_mini, o1_preview}
           THEN /\ DOMAIN request = {"model", "messages"}
                /\ pc = "request"
           ELSE /\ DOMAIN request =
                     {"model", "messages", "temperature", "max_tokens", "stream"}
                /\ request.stream = TRUE
                /\ request.temperature = temperature
                /\ request.max_tokens = max_tokens
                /\ pc = "stream"

\* an o1 request sent while temperature and max_tokens are off their defaults
C2_Witness ==
    /\ pc = "request"
    /\ model = o1_mini
    /\ temperature = 7
    /\ DOMAIN request = {"model", "messages"}

\* C3: while a stream is consumed, each fragment pulled leaves the text
\* accumulated so far on the placeholder, and at stream end the assistant
\* message appended is the concatenation of the fragments in arrival order.
C3_StreamConcatenation ==
    [][pc = "stream" =>
          /\ (pc' = "stream" /\ received' # received) =>
                 /\ full_response' = TextOf(received')
                 /\ rendered' = TextOf(received') \o <<"cursor">>
          /\ pc' = "save" =>
                 /\ messages' = Append(messages, AssistantMessage(TextOf(received)))
                 /\ rendered' = TextOf(received)]_vars

\* a streamed reply of two different fragments has been committed
C3_Witness ==
    /\ pc = "save"
    /\ trigger = "submit"
    /\ "stream" \in DOMAIN request
    /\ messages[Len(messages)] = AssistantMessage(<<"e_acute", "\\">>)

\* C4: when the request fails, at once or in the middle of the stream, the
\* run ends with the history being the history before the submission plus
\* the user message, and a new submission is possible.
C4_FailedTurn ==
    [][(InFlight /\ error' = "turn:RequestError") =>
          /\ messages' = Append(turn_base, UserMessage(prompt))
          /\ pc' = "ready"]_vars

\* a stream that failed after a fragment, on a history that was not empty
C4_Witness ==
    /\ error = "turn:RequestError"
    /\ pc = "ready"
    /\ rendered # <<>>
    /\ turn_base # <<>>
    /\ messages = Append(turn_base, UserMessage(prompt))

\* C5: between script runs token_count is the sum of the token counts of
\* the messages of the history.
C5_TokenCountInSync ==
    (BetweenRuns /\ Countable(messages)) => token_count = TokenSum(messages)

WellFormedTranscript(text) ==
    /\ text.valid
    /\ \A i \in 1..Len(text.objs) :
          /\ text.objs[i].role \in {"user", "assistant"}
          /\ text.objs[i].content # Absent

\* C6: loading a malformed transcript reports an error and leaves messages
\* and token_count as they were.
C6_MalformedLoadLeavesSession ==
    [][(pc = "load" /\ uploaded_file.held
          /\ ~WellFormedTranscript(uploaded_file.text)) =>
          /\ error' \in {"load:JSONDecodeError", "load:KeyError"}
          /\ messages' = messages
          /\ token_count' = token_count]_vars

\* C7: after a submission with an empty API key the warning is shown, no
\* request was sent and the run did not end in an exception.
C7_MissingKeyBlocksSubmission ==
    (BetweenRuns /\ trigger = "submit" /\ api_key = NoKey) =>
        /\ warning
        /\ request = NoRequest
        /\ error = "none"

\* C8: Save Chat History leaves messages and token_count alone and writes a
\* JSON file that reads back as the messages; loading a file written by
\* Save Chat History makes messages equal to the messages that were saved.
C8_SaveLoadRoundTrip ==
    [][/\ (pc = "save" /\ trigger = "save") =>
              /\ messages' = messages
              /\ token_count' = token_count
              /\ disk'.exists
              /\ json_load(disk'.json) = messages
       /\ (pc = "load" /\ uploaded_file.held /\ uploaded_file.saved) =>
              /\ messages' = uploaded_file.origin
              /\ pc' = "rerun"]_vars

\* a saved exchange whose texts need escaping has been loaded back
C8_Witness ==
    /\ pc = "rerun"
    /\ uploaded_file.held
    /\ uploaded_file.saved
    /\ Len(messages) = 2
    /\ messages = uploaded_file.origin
    /\ messages[1].content = <<"\"", "a">>
    /\ messages[2].content = <<"\\", "e_acute">>

\* C9: when the run started by Reset Conversation ends, messages is empty,
\* token_count is 0 and the configuration is what it was.
C9_ResetClears ==
    [][(trigger = "reset" /\ ~BetweenRuns /\ BetweenRuns') =>
          /\ messages' = <<>>
          /\ token_count' = 0
          /\ Config' = Config]_vars

\* C10: when the run of a submission whose completion succeeded ends, the
\* history is the history before the submission, the user message and the
\* assistant message.
C10_TurnSurvivesRun ==
    [][(trigger = "submit" /\ pc \in {"save", "load", "reset"} /\ BetweenRuns') =>
          messages' = turn_base \o
                        <<UserMessage(prompt), AssistantMessage(full_response)>>]_vars
====
